---- MODULE Spec2Model ----
(***************************************************************************)
(* Model of the generic configuration loader of package config              *)
(* (src/config.go).  The file holds two revisions of the package: the       *)
(* first one (lines 1-150, here api = "legacy") has New, Parse, Load and    *)
(* StartDynamicReload; the second one (lines 152-380, api = "current") adds *)
(* the change callback, DisableAutoParse, the default file name,            *)
(* StartWatcher and NewDynamic.                                             *)
(*                                                                          *)
(* The configured type T is the DatabaseConfig of the examples: two fields, *)
(* Host and Port.  The viper instance and the file system are the           *)
(* environment of the package: they are modelled by what the calls made in  *)
(* config.go do to them (ReadInConfig, ReadConfig, Sub, Unmarshal,          *)
(* AutomaticEnv, OnConfigChange, WatchConfig).                              *)
(***************************************************************************)
EXTENDS Integers, Sequences, FiniteSets, TLC

\* ------------------------------------------------------------------ bounds
NVals == 2          \* distinct well-formed field maps a source can hold
MaxChanges == 1     \* writes to the configuration file by the environment
MaxWatch == 2       \* StartWatcher / StartDynamicReload calls (watch tasks)
MaxOps == 2         \* Parse() / Load() calls made by the caller after New

\* --------------------------------------------------------------- the type T
\* var config T: the zero value of DatabaseConfig (Host "", Port 0).
ZeroT == [Host |-> 0, Port |-> 0]

\* A raw port that is not a number ("port: abc"): Unmarshal into int fails.
BadRaw == -1

\* A key/value map of a source; present = FALSE is the absent (nil) map.
Absent == [present |-> FALSE, host |-> 0, port |-> 0]
GoodMap(k) == [present |-> TRUE, host |-> k, port |-> 10 + k]
BadMap == [present |-> TRUE, host |-> 1, port |-> BadRaw]
EmptyMap == [present |-> TRUE, host |-> 0, port |-> 0]
\* The section a source can hold and WithSubSection can ask for.
DocSection == "databaseConfig"
SectionNames == {DocSection}

\* What a file path holds: nothing, text no decoder accepts, or a document
\* with top-level keys and possibly the section databaseConfig.
MissingFile == [st |-> "missing", top |-> Absent, sub |-> Absent]
MalformedFile == [st |-> "malformed", top |-> Absent, sub |-> Absent]
Doc(top, sub) == [st |-> "ok", top |-> top, sub |-> sub]
Documents ==
    {Doc(GoodMap(k), IF k < NVals THEN GoodMap(k + 1) ELSE Absent) : k \in 1..NVals}
    \cup {Doc(BadMap, BadMap)}
Written == Documents \cup {MalformedFile}
FileStates == Written \cup {MissingFile}

\* A document that has the key port and no key host.
HostlessMap == [present |-> TRUE, host |-> 0, port |-> 10]

\* What the io.Reader given to WithConfigReader can hold.
Readers == {Doc(GoodMap(1), GoodMap(NVals)), Doc(HostlessMap, Absent), MalformedFile}

\* The process environment: the variable whose name viper derives from the
\* key host (HOST, or DATABASECONFIG_HOST for a nested key) is unset (0) or
\* holds EnvHost, a host no source holds.
Unset == 0
EnvHost == NVals + 1

\* ------------------------------------------------------------------ errors
NoErr == [kind |-> "nil", section |-> ""]

\* fmt.Errorf("%w: %s", errSectionNotFound, c.subSection)
ErrSectionNotFoundBare(section) == [kind |-> "sectionNotFound", section |-> ""]
ErrSectionNotFound(section) == [kind |-> "sectionNotFound", section |-> section]

\* "failed to unmarshal section %s: %w" / "failed to unmarshal config: %w"
ErrUnmarshal(section) == [kind |-> "unmarshal", section |-> section]

\* ----------------------------------------------------------------- threads
Main == 0
Watchers == 1..MaxWatch
Threads == {Main} \cup Watchers

\* Heap cells for values of T: the published one, one per running Parse or
\* Load of each thread.
Nil == 0
Addrs == 1..(MaxWatch + 2)

VARIABLES
    api,        \* which revision of the package: "legacy" or "current"
    env,        \* the environment variable matching the key host
    file,       \* what the configuration file holds
    changes,    \* writes to the file so far
    viper,      \* the viper instance of the Loader
    loader,     \* the plain fields of the Loader
    config,     \* Loader.config, the atomic.Pointer[T]: Nil or an address
    heap,       \* the values of T the pointers refer to
    mpc,        \* position of the program's main goroutine
    ops,        \* calls of Parse / Load made by the caller so far
    th,         \* per goroutine: the frame of its running Parse or Load
    wpc,        \* per watch task: its position
    pending,    \* per watch task: change events not yet handled
    nParsed,    \* Parse attempts the change handlers have finished
    nCalled,    \* invocations of the change callback
    cbArg,      \* argument of the last callback invocation
    logged,     \* the message last written to the logger
    panicked,   \* "" or the panic that aborted the process
    ld,         \* the pointer a running Load() has read, Nil otherwise
    retVal,     \* the value the caller last got from Load() or NewDynamic
    newSnap,    \* in NewDynamic: the snapshot its call of New has published
    hist        \* history: what the latest Store, Load and reload have done

vars == <<api, env, file, changes, viper, loader, config, heap, mpc, ops, th,
          wpc, pending, nParsed, nCalled, cbArg, logged, panicked, ld,
          retVal, newSnap, hist>>

\* ------------------------------------------------------------------- frames
IdleFrame == [pc |-> "idle", addr |-> Nil, m |-> Absent, err |-> NoErr]
Frame(pc, addr, m, err) == [pc |-> pc, addr |-> addr, m |-> m, err |-> err]

\* An optional value of T: what a call returned, if it returned.
NoVal == [set |-> FALSE, val |-> ZeroT]
SomeVal(v) == [set |-> TRUE, val |-> v]

\* The addresses some goroutine or the Loader still refers to.
Roots(cfg, frames, p) == {cfg, p} \cup {frames[t].addr : t \in Threads}

\* The garbage collector: a cell nothing refers to is reclaimed.
Collect(h, cfg, frames, p) ==
    [a \in Addrs |-> IF a \in Roots(cfg, frames, p) THEN h[a] ELSE ZeroT]

\* Allocation of "var config T": a cell nothing refers to, zero-valued.
NewCell == CHOOSE a \in Addrs : a \notin Roots(config, th, ld)

\* -------------------------------------------------------------------- viper
\* viper.NewWithOptions(viper.KeyDelimiter("_")): nothing read, no file set.
NewViper ==
    [loaded |-> FALSE, top |-> EmptyMap, sub |-> Absent,
     configFile |-> "", configType |-> "", onConfigChange |-> "nil",
     automaticEnv |-> FALSE]

\* v.ReadInConfig() / v.ReadConfig(reader): a source that decodes replaces
\* the settings; a source that cannot be read or decoded leaves them as
\* they were and the call returns an error.
ReadOK(src) == src.st = "ok"
ReadInto(v, src) ==
    IF ReadOK(src)
    THEN [v EXCEPT !.loaded = TRUE, !.top = src.top, !.sub = src.sub]
    ELSE v

\* v.Sub(section): the sub-tree under the key, nil (Absent) without the key.
Sub(v, section) == IF section = DocSection THEN v.sub ELSE Absent

\* v.AllSettings(), the map v.Unmarshal decodes: the top-level keys.
AllSettings(v) == v.top

\* v.AutomaticEnv() makes every lookup of a key consult the environment
\* first.  Unmarshal decodes the keys viper knows from its sources (AllKeys)
\* with the value a lookup gives: a key the source holds takes the value of
\* its environment variable, a key no source holds is not decoded at all.
WithEnv(v, m) ==
    IF v.automaticEnv /\ env # Unset /\ m.present /\ m.host # 0
    THEN [m EXCEPT !.host = env] ELSE m

\* History kept for the properties: m, the map decoded by the Parse whose
\* Store is the latest; fresh, the value the last Load returned when no
\* Store has happened since it read the pointer; did, per watch task, the
\* map its running change handler has stored.
NoHist == [m |-> Absent, fresh |-> [set |-> FALSE, val |-> ZeroT],
           did |-> [w \in Watchers |-> Absent]]

\* ---------------------------------------------------------------- initial
Init ==
    /\ api \in {"legacy", "current"}
    /\ env \in {Unset, EnvHost}
    /\ hist = NoHist
    /\ file \in FileStates
    /\ changes = 0
    /\ viper = NewViper
    /\ loader = [subSection |-> "", onChangeCallback |-> FALSE,
                 disableAutoParse |-> FALSE, useDefaultFilename |-> TRUE,
                 disableAutomaticEnv |-> FALSE]
    /\ config = Nil
    /\ heap = [a \in Addrs |-> ZeroT]
    /\ mpc = "opts"
    /\ ops = 0
    /\ th = [t \in Threads |-> IdleFrame]
    /\ wpc = [w \in Watchers |-> "none"]
    /\ pending = [w \in Watchers |-> 0]
    /\ nParsed = 0
    /\ nCalled = 0
    /\ cbArg = NoErr
    /\ logged = ""
    /\ panicked = ""
    /\ ld = Nil
    /\ retVal = NoVal
    /\ newSnap = NoVal

\* ---------------------------------------------------------------- options
\* What no option and no step of New touches.
RunUnchanged ==
    UNCHANGED <<api, env, hist, changes, config, heap, ops, th, wpc, pending,
                nParsed, nCalled, cbArg, panicked, ld, retVal,
                newSnap>>

\* if !loader.disableAutomaticEnv { loader.viper.AutomaticEnv() }
AutomaticEnv(l, v) ==
    IF ~l.disableAutomaticEnv THEN [v EXCEPT !.automaticEnv = TRUE] ELSE v

\* The body of the option WithConfigFile(configPath), also used by New for
\* the default file name.
ConfigFileRead(l, v, path) ==
    [l |-> [l EXCEPT !.useDefaultFilename = FALSE],
     v |-> ReadInto([v EXCEPT !.configFile = path], file),
     log |-> IF ReadOK(file) THEN logged ELSE "Failed to read config from file"]

WithConfigFile ==
    /\ mpc = "opts" /\ panicked = ""
    /\ viper.configFile = ""
    /\ LET r == ConfigFileRead(loader, viper, "app.yml") IN
        /\ loader' = r.l
        /\ viper' = r.v
        /\ logged' = r.log
    /\ UNCHANGED <<file, mpc>>
    /\ RunUnchanged

\* WithConfigReader leaving useDefaultFilename as it is.
WithConfigReaderKeepsDefault ==
    /\ mpc = "opts" /\ panicked = ""
    /\ viper.configType = ""
    /\ \E reader \in Readers :
        /\ loader' = loader
        /\ viper' = ReadInto([viper EXCEPT !.configType = "json"], reader)
        /\ logged' = IF ReadOK(reader) THEN logged
                                     ELSE "Failed to read config from reader"
    /\ UNCHANGED <<file, mpc>>
    /\ RunUnchanged

\* The option WithConfigReader(reader, configType), lines 254-263.
WithConfigReader ==
    /\ mpc = "opts" /\ panicked = ""
    /\ viper.configType = ""
    /\ \E reader \in Readers :
        /\ loader' = [loader EXCEPT !.useDefaultFilename = FALSE]
        /\ viper' = ReadInto([viper EXCEPT !.configType = "json"], reader)
        /\ logged' = IF ReadOK(reader) THEN logged
                                     ELSE "Failed to read config from reader"
    /\ UNCHANGED <<file, mpc>>
    /\ RunUnchanged

WithSubSection ==
    /\ mpc = "opts" /\ panicked = ""
    /\ loader.subSection = ""
    /\ \E section \in SectionNames :
        loader' = [loader EXCEPT !.subSection = section]
    /\ UNCHANGED <<file, viper, mpc, logged>>
    /\ RunUnchanged

WithOnChangeCallback ==
    /\ mpc = "opts" /\ panicked = ""
    /\ api = "current"
    /\ ~loader.onChangeCallback
    /\ loader' = [loader EXCEPT !.onChangeCallback = TRUE]
    /\ UNCHANGED <<file, viper, mpc, logged>>
    /\ RunUnchanged

DisableAutoParse ==
    /\ mpc = "opts" /\ panicked = ""
    /\ api = "current"
    /\ ~loader.disableAutoParse
    /\ loader' = [loader EXCEPT !.disableAutoParse = TRUE]
    /\ UNCHANGED <<file, viper, mpc, logged>>
    /\ RunUnchanged

DisableAutomaticEnv ==
    /\ mpc = "opts" /\ panicked = ""
    /\ ~loader.disableAutomaticEnv
    /\ loader' = [loader EXCEPT !.disableAutomaticEnv = TRUE]
    /\ UNCHANGED <<file, viper, mpc, logged>>
    /\ RunUnchanged

\* ------------------------------------------------------------------- Parse
\* The cell Parse decodes into: its own local "var config T".
ParseTargetInPlace == IF config # Nil THEN config ELSE NewCell

\* Parse recycling a replaced snapshot that a Load still reads.
ParseTargetRecycled == IF ld # Nil /\ ld # config THEN ld ELSE NewCell
ParseTarget == NewCell

\* Parse with a decoder that finds no key for the field Host.
ParseBeginNoHost(t) ==
    IF loader.subSection # "" /\ ~Sub(viper, loader.subSection).present
    THEN /\ th' = [th EXCEPT ![t] =
                    Frame("ret", Nil, Absent, ErrSectionNotFound(loader.subSection))]
         /\ heap' = heap
    ELSE LET a == ParseTarget
             m == WithEnv(viper, IF loader.subSection # ""
                                 THEN Sub(viper, loader.subSection)
                                 ELSE AllSettings(viper))
         IN /\ th' = [th EXCEPT ![t] = Frame("port", a, m, NoErr)]
            /\ heap' = [heap EXCEPT ![a] = ZeroT]

\* Parse, lines 313-327: the subsection is looked up; without it Parse
\* returns the section-not-found error, otherwise the decoder is given the
\* sub-tree (or all settings) and the fresh local value, and fills the
\* field Host ...
ParseBegin(t) ==
    IF loader.subSection # "" /\ ~Sub(viper, loader.subSection).present
    THEN /\ th' = [th EXCEPT ![t] =
                    Frame("ret", Nil, Absent, ErrSectionNotFound(loader.subSection))]
         /\ heap' = heap
    ELSE LET a == ParseTarget
             m == WithEnv(viper, IF loader.subSection # ""
                                 THEN Sub(viper, loader.subSection)
                                 ELSE AllSettings(viper))
         IN /\ th' = [th EXCEPT ![t] = Frame("port", a, m, NoErr)]
            /\ heap' = [heap EXCEPT ![a] = [ZeroT EXCEPT !.Host = m.host]]

\* Parse as called by New (line 231) and by the change handler (line 348).
ParseSub(t) ==
    /\ panicked = ""
    /\ th[t].pc = "parse"
    /\ ParseBegin(t)
    /\ UNCHANGED <<api, env, hist, file, changes, viper, loader, config, mpc, ops,
                   wpc, pending, nParsed, nCalled, cbArg, logged, panicked,
                   ld, retVal, newSnap>>

\* The history after the Store of the Parse of goroutine t.
Stored(t) ==
    [hist EXCEPT !.m = th[t].m,
                 !.fresh = NoVal,
                 !.did = IF t \in Watchers THEN [@ EXCEPT ![t] = th[t].m] ELSE @]

\* Parse with the Store moved before the error check of Unmarshal.
ParseStoreAlways(t) ==
    /\ panicked = ""
    /\ th[t].pc = "port"
    /\ th' = [th EXCEPT ![t] =
                Frame("ret", Nil, Absent,
                      IF th[t].m.port = BadRaw THEN ErrUnmarshal(loader.subSection)
                                               ELSE NoErr)]
    /\ config' = th[t].addr
    /\ heap' = Collect([heap EXCEPT ![th[t].addr].Port =
                            IF th[t].m.port = BadRaw THEN 0 ELSE th[t].m.port],
                       config', th', ld)
    /\ hist' = Stored(t)
    /\ UNCHANGED <<api, env, file, changes, viper, loader, mpc, ops, wpc,
                   pending, nParsed, nCalled, cbArg, logged, panicked, ld,
                   retVal, newSnap>>

\* Parse publishing its value only while nothing is published yet.
ParseStoreOnce(t) ==
    /\ panicked = ""
    /\ th[t].pc = "port"
    /\ IF th[t].m.port = BadRaw
       THEN /\ th' = [th EXCEPT ![t] =
                       Frame("ret", Nil, Absent, ErrUnmarshal(loader.subSection))]
            /\ config' = config
            /\ hist' = hist
       ELSE /\ th' = [th EXCEPT ![t] = Frame("ret", Nil, Absent, NoErr)]
            /\ config' = IF config = Nil THEN th[t].addr ELSE config
            /\ hist' = IF config = Nil THEN Stored(t) ELSE hist
    /\ heap' = Collect([heap EXCEPT ![th[t].addr].Port =
                            IF th[t].m.port = BadRaw THEN 0 ELSE th[t].m.port],
                       config', th', ld)
    /\ UNCHANGED <<api, env, file, changes, viper, loader, mpc, ops, wpc,
                   pending, nParsed, nCalled, cbArg, logged, panicked, ld,
                   retVal, newSnap>>

\* Parse publishing its value only when the caller or New runs it: the
\* change handler parses into a Loader of its own.
ParseStoreSkipsReload(t) ==
    /\ panicked = ""
    /\ th[t].pc = "port"
    /\ IF th[t].m.port = BadRaw
       THEN /\ th' = [th EXCEPT ![t] =
                       Frame("ret", Nil, Absent, ErrUnmarshal(loader.subSection))]
            /\ config' = config
            /\ hist' = hist
       ELSE /\ th' = [th EXCEPT ![t] = Frame("ret", Nil, Absent, NoErr)]
            /\ config' = IF t = Main THEN th[t].addr ELSE config
            /\ hist' = Stored(t)
    /\ heap' = Collect([heap EXCEPT ![th[t].addr].Port =
                            IF th[t].m.port = BadRaw THEN 0 ELSE th[t].m.port],
                       config', th', ld)
    /\ UNCHANGED <<api, env, file, changes, viper, loader, mpc, ops, wpc,
                   pending, nParsed, nCalled, cbArg, logged, panicked, ld,
                   retVal, newSnap>>

\* ... and the field Port; a value that does not decode makes Unmarshal, and
\* with it Parse, return an error before the Store is reached.  Otherwise
\* the finished value is published: c.config.Store(&config); return nil
\* (lines 333-335).
ParseStore(t) ==
    /\ panicked = ""
    /\ th[t].pc = "port"
    /\ IF th[t].m.port = BadRaw
       THEN /\ th' = [th EXCEPT ![t] =
                       Frame("ret", Nil, Absent, ErrUnmarshal(loader.subSection))]
            /\ config' = config
            /\ heap' = Collect(heap, config', th', ld)
            /\ hist' = hist
       ELSE /\ th' = [th EXCEPT ![t] = Frame("ret", Nil, Absent, NoErr)]
            /\ config' = th[t].addr
            /\ heap' = Collect([heap EXCEPT ![th[t].addr].Port = th[t].m.port],
                               config', th', ld)
            /\ hist' = Stored(t)
    /\ UNCHANGED <<api, env, file, changes, viper, loader, mpc, ops, wpc,
                   pending, nParsed, nCalled, cbArg, logged, panicked, ld,
                   retVal, newSnap>>

\* --------------------------------------------------------------------- New
\* Where the program goes when New has returned: to the caller of New, or
\* on in NewDynamic (line 376) when that is what called New.
AfterNew == IF api = "current" THEN {"idle", "ndwatch"} ELSE {"idle"}

\* New without its call of Parse.
NewFinishNoParse ==
    /\ mpc = "opts" /\ panicked = ""
    /\ LET r == IF api = "current" /\ loader.useDefaultFilename
                THEN ConfigFileRead(loader, viper, "config.yml")
                ELSE [l |-> loader, v |-> viper, log |-> logged]
       IN /\ loader' = r.l
          /\ viper' = AutomaticEnv(r.l, r.v)
          /\ logged' = r.log
    /\ mpc' \in AfterNew
    /\ UNCHANGED <<api, env, hist, file, changes, config, heap, ops, th, wpc, pending,
                   nParsed, nCalled, cbArg, panicked, ld, retVal, newSnap>>

\* New calling Parse whatever disableAutoParse says.
NewFinishAlwaysParse ==
    /\ mpc = "opts" /\ panicked = ""
    /\ LET r == IF api = "current" /\ loader.useDefaultFilename
                THEN ConfigFileRead(loader, viper, "config.yml")
                ELSE [l |-> loader, v |-> viper, log |-> logged]
       IN /\ loader' = r.l
          /\ viper' = AutomaticEnv(r.l, r.v)
          /\ logged' = r.log
    /\ mpc' = "autoparse"
    /\ th' = [th EXCEPT ![Main] = Frame("parse", Nil, Absent, NoErr)]
    /\ UNCHANGED <<api, env, hist, file, changes, config, heap, ops, wpc, pending,
                   nParsed, nCalled, cbArg, panicked, ld, retVal, newSnap>>

\* New after the options, lines 220-234 (legacy: lines 44-50): the default
\* file is read when no source option cleared useDefaultFilename, then Parse
\* is called unless DisableAutoParse was given.
NewFinish ==
    /\ mpc = "opts" /\ panicked = ""
    /\ LET r == IF api = "current" /\ loader.useDefaultFilename
                THEN ConfigFileRead(loader, viper, "config.yml")
                ELSE [l |-> loader, v |-> viper, log |-> logged]
       IN /\ loader' = r.l
          /\ viper' = AutomaticEnv(r.l, r.v)
          /\ logged' = r.log
    /\ IF loader.disableAutoParse
       THEN /\ mpc' \in AfterNew
            /\ th' = th
       ELSE /\ mpc' = "autoparse"
            /\ th' = [th EXCEPT ![Main] = Frame("parse", Nil, Absent, NoErr)]
    /\ UNCHANGED <<api, env, hist, file, changes, config, heap, ops, wpc, pending,
                   nParsed, nCalled, cbArg, panicked, ld, retVal,
                   newSnap>>

\* New logging the error of Parse instead of panicking.
NewParsedNoPanic ==
    /\ mpc = "autoparse" /\ panicked = ""
    /\ th[Main].pc = "ret"
    /\ mpc' \in AfterNew
    /\ newSnap' = IF mpc' = "ndwatch" /\ config # Nil
                  THEN SomeVal(heap[config]) ELSE newSnap
    /\ th' = [th EXCEPT ![Main] = IdleFrame]
    /\ UNCHANGED <<api, env, hist, file, changes, viper, loader, config, heap, ops,
                   wpc, pending, nParsed, nCalled, cbArg, logged, panicked,
                   ld, retVal>>

\* New calling the change callback with the result of its Parse.
NewParsedCallsBack ==
    /\ mpc = "autoparse" /\ panicked = ""
    /\ th[Main].pc = "ret"
    /\ IF th[Main].err # NoErr
       THEN /\ panicked' = "Failed to load config"
            /\ UNCHANGED <<mpc, newSnap>>
       ELSE /\ mpc' \in AfterNew
            /\ newSnap' = IF mpc' = "ndwatch" THEN SomeVal(heap[config]) ELSE newSnap
            /\ panicked' = panicked
    /\ nCalled' = IF loader.onChangeCallback THEN nCalled + 1 ELSE nCalled
    /\ cbArg' = IF loader.onChangeCallback THEN th[Main].err ELSE cbArg
    /\ th' = [th EXCEPT ![Main] = IdleFrame]
    /\ UNCHANGED <<api, env, hist, file, changes, viper, loader, config, heap, ops,
                   wpc, pending, nParsed, logged, ld, retVal>>

\* if err := loader.Parse(); err != nil { panic(...) }; return loader
NewParsed ==
    /\ mpc = "autoparse" /\ panicked = ""
    /\ th[Main].pc = "ret"
    /\ IF th[Main].err # NoErr
       THEN /\ panicked' = "Failed to load config"
            /\ UNCHANGED <<mpc, newSnap>>
       ELSE /\ mpc' \in AfterNew
            /\ newSnap' = IF mpc' = "ndwatch" THEN SomeVal(heap[config]) ELSE newSnap
            /\ panicked' = panicked
    /\ th' = [th EXCEPT ![Main] = IdleFrame]
    /\ UNCHANGED <<api, env, hist, file, changes, viper, loader, config, heap, ops,
                   wpc, pending, nParsed, nCalled, cbArg, logged, ld, retVal>>

\* -------------------------------------------------------------------- Load
\* c.config.Load(): the pointer is read; dereferencing nil panics.
LoadPtr ==
    IF config = Nil
    THEN /\ panicked' = "nil pointer dereference"
         /\ ld' = ld
    ELSE /\ ld' = config
         /\ panicked' = panicked

\* return *p: the value is copied out and handed to the caller (of Load, or
\* of NewDynamic, line 378).
LoadCopy ==
    /\ panicked = ""
    /\ ld # Nil
    /\ retVal' = SomeVal(heap[ld])
    /\ mpc' = "idle"
    /\ ld' = Nil
    /\ heap' = Collect(heap, config, th, ld')
    /\ hist' = [hist EXCEPT !.fresh = IF ld = config THEN SomeVal(heap[ld])
                                                     ELSE NoVal]
    /\ UNCHANGED <<api, env, file, changes, viper, loader, config, ops, th,
                   wpc, pending, nParsed, nCalled, cbArg, logged, panicked,
                   newSnap>>

\* ------------------------------------------------------------ the watcher
\* go func() { c.viper.WatchConfig() }(): the next unused watch task.
FreeTasks == {w \in Watchers : wpc[w] = "none"}
Spawn == [wpc EXCEPT ![CHOOSE w \in FreeTasks : \A x \in FreeTasks : w <= x] = "starting"]

\* StartWatcher registering the handler without starting the goroutine.
StartWatcherNoSpawn ==
    /\ viper' = [viper EXCEPT !.onConfigChange = "watcher"]
    /\ wpc' = wpc

\* StartWatcher, lines 345-366: the handler is registered with viper and a
\* goroutine is started for WatchConfig.  Nothing guards a second call.
StartWatcherBody ==
    /\ viper' = [viper EXCEPT !.onConfigChange = "watcher"]
    /\ wpc' = Spawn

\* StartDynamicReload, lines 136-150 (first revision): the same with a
\* handler that only parses and logs.
StartDynamicReloadBody ==
    /\ viper' = [viper EXCEPT !.onConfigChange = "reload"]
    /\ wpc' = Spawn

\* The caller is between two calls.
CallerFree == mpc = "idle" /\ panicked = "" /\ ld = Nil /\ th[Main].pc \in {"idle", "ret"}

\* The caller calls loader.StartWatcher().
StartWatcher ==
    /\ CallerFree
    /\ api = "current"
    /\ FreeTasks # {}
    /\ StartWatcherBody
    /\ UNCHANGED <<api, env, hist, file, changes, loader, config, heap, mpc, ops,
                   th, pending, nParsed, nCalled, cbArg, logged, panicked, ld,
                   retVal, newSnap>>

\* The caller calls loader.StartDynamicReload().
StartDynamicReload ==
    /\ CallerFree
    /\ api = "legacy"
    /\ FreeTasks # {}
    /\ StartDynamicReloadBody
    /\ UNCHANGED <<api, env, hist, file, changes, loader, config, heap, mpc, ops,
                   th, pending, nParsed, nCalled, cbArg, logged, panicked, ld,
                   retVal, newSnap>>

\* NewDynamic, lines 375-376: after New, StartWatcher is called ...
NewDynamicWatch ==
    /\ mpc = "ndwatch" /\ panicked = ""
    /\ StartWatcherBody
    /\ mpc' = "ndload"
    /\ UNCHANGED <<api, env, hist, file, changes, loader, config, heap, ops, th,
                   pending, nParsed, nCalled, cbArg, logged, panicked, ld,
                   retVal, newSnap>>

\* ... and then Load (line 378), whose value is returned with the loader.
NewDynamicLoad ==
    /\ mpc = "ndload" /\ panicked = ""
    /\ ld = Nil
    /\ LoadPtr
    /\ UNCHANGED <<api, env, hist, file, changes, viper, loader, config, heap, mpc,
                   ops, th, wpc, pending, nParsed, nCalled, cbArg, logged,
                   retVal, newSnap>>

\* WatchConfig calling the change handler once when the watch begins.
WatchConfigReloads(w) ==
    /\ panicked = ""
    /\ wpc[w] = "starting"
    /\ wpc' = [wpc EXCEPT ![w] = IF viper.configFile # "" THEN "watching" ELSE "dead"]
    /\ pending' = [pending EXCEPT ![w] = IF viper.configFile # "" THEN @ + 1 ELSE @]
    /\ UNCHANGED <<api, env, hist, file, changes, viper, loader, config, heap, mpc,
                   ops, th, nParsed, nCalled, cbArg, logged,
                   panicked, ld, retVal, newSnap>>

\* viper.WatchConfig() in the started goroutine: the directory of the
\* configuration file is watched from now on; without a configuration file
\* (a reader was the source) WatchConfig logs an error and returns.
WatchConfig(w) ==
    /\ panicked = ""
    /\ wpc[w] = "starting"
    /\ wpc' = [wpc EXCEPT ![w] = IF viper.configFile # "" THEN "watching" ELSE "dead"]
    /\ UNCHANGED <<api, env, hist, file, changes, viper, loader, config, heap, mpc,
                   ops, th, pending, nParsed, nCalled, cbArg, logged,
                   panicked, ld, retVal, newSnap>>

\* A task that has a watch on the file.
Active(w) == wpc[w] \in {"watching", "handler"}

\* The environment writes the configuration file; every active watch is
\* notified of the change.  (A write made while New runs is seen by nothing
\* New has not read yet: it is the same as another initial file, or as a
\* write made right after New.)
FileWrite ==
    /\ panicked = ""
    /\ mpc \notin {"opts", "autoparse"}
    /\ \E f \in Written \ {file} : file' = f
    /\ changes' = changes + 1
    /\ pending' = [w \in Watchers |-> IF Active(w) THEN pending[w] + 1 ELSE pending[w]]
    /\ UNCHANGED <<api, env, hist, viper, loader, config, heap, mpc, ops, th, wpc,
                   nParsed, nCalled, cbArg, logged, panicked, ld, retVal, newSnap>>

\* A write to the file, up to MaxChanges of them.
FileChange ==
    /\ changes < MaxChanges
    /\ FileWrite

\* A change handler that calls the callback first and parses afterwards.
WatchEventCallbackFirst(w) ==
    /\ panicked = ""
    /\ wpc[w] = "watching"
    /\ pending[w] > 0
    /\ pending' = [pending EXCEPT ![w] = @ - 1]
    /\ viper' = ReadInto(viper, file)
    /\ wpc' = [wpc EXCEPT ![w] = "handler"]
    /\ th' = [th EXCEPT ![w] = Frame("parse", Nil, Absent, NoErr)]
    /\ nCalled' = IF loader.onChangeCallback THEN nCalled + 1 ELSE nCalled
    /\ cbArg' = NoErr
    /\ UNCHANGED <<api, env, hist, file, changes, loader, config, heap, mpc, ops,
                   nParsed, logged, panicked, ld, retVal, newSnap>>

\* The watch task takes a change event: viper reads the file again (keeping
\* the old settings when that fails) and calls the registered handler, whose
\* first statement is c.Parse() (line 348, legacy line 139).
WatchEvent(w) ==
    /\ panicked = ""
    /\ wpc[w] = "watching"
    /\ pending[w] > 0
    /\ pending' = [pending EXCEPT ![w] = @ - 1]
    /\ viper' = ReadInto(viper, file)
    /\ wpc' = [wpc EXCEPT ![w] = "handler"]
    /\ th' = [th EXCEPT ![w] = Frame("parse", Nil, Absent, NoErr)]
    /\ UNCHANGED <<api, env, hist, file, changes, loader, config, heap, mpc, ops,
                   nParsed, nCalled, cbArg, logged, panicked, ld, retVal, newSnap>>

\* The callback invocations of a handler run: the handler of StartWatcher
\* calls c.onChangeCallback(err) when a callback is set (lines 355-357), the
\* handler of StartDynamicReload has no callback.
CallbackCallsOnSuccess(handler, callback, err) ==
    IF handler = "watcher" /\ callback /\ err = NoErr THEN 1 ELSE 0
CallbackCalls(handler, callback, err) ==
    IF handler = "watcher" /\ callback THEN 1 ELSE 0

\* The handler after Parse, lines 349-357 (legacy 139-143): the outcome is
\* logged and the callback, if set, is called with the error.
HandlerParsed(w) ==
    /\ panicked = ""
    /\ wpc[w] = "handler"
    /\ th[w].pc = "ret"
    /\ logged' = IF th[w].err # NoErr THEN "Failed to reload config"
                                     ELSE "Config reloaded successfully"
    /\ nParsed' = nParsed + 1
    /\ LET n == CallbackCalls(viper.onConfigChange, loader.onChangeCallback, th[w].err) IN
        /\ nCalled' = nCalled + n
        /\ cbArg' = IF n > 0 THEN th[w].err ELSE cbArg
    /\ wpc' = [wpc EXCEPT ![w] = "watching"]
    /\ th' = [th EXCEPT ![w] = IdleFrame]
    /\ hist' = [hist EXCEPT !.did[w] = Absent]
    /\ UNCHANGED <<api, env, file, changes, viper, loader, config, heap, mpc,
                   ops, pending, panicked, ld, retVal, newSnap>>

\* -------------------------------------------------------------- the caller
\* The caller calls loader.Parse(); the error it returns stays in the frame.
CallParse ==
    /\ CallerFree
    /\ ops < MaxOps
    /\ ops' = ops + 1
    /\ ParseBegin(Main)
    /\ retVal' = NoVal
    /\ newSnap' = NoVal
    /\ UNCHANGED <<api, env, hist, file, changes, viper, loader, config, mpc, wpc,
                   pending, nParsed, nCalled, cbArg, logged, panicked, ld>>

\* The caller calls loader.Load().
CallLoad ==
    /\ CallerFree
    /\ ops < MaxOps
    /\ ops' = ops + 1
    /\ LoadPtr
    /\ retVal' = NoVal
    /\ newSnap' = NoVal
    /\ UNCHANGED <<api, env, hist, file, changes, viper, loader, config, heap, mpc,
                   th, wpc, pending, nParsed, nCalled, cbArg, logged>>

\* --------------------------------------------------------- specification
Next ==
    \/ WithConfigFile
    \/ WithConfigReader
    \/ WithSubSection
    \/ WithOnChangeCallback
    \/ DisableAutoParse
    \/ DisableAutomaticEnv
    \/ NewFinish
    \/ NewParsed
    \/ \E t \in Threads : ParseSub(t)
    \/ \E t \in Threads : ParseStore(t)
    \/ LoadCopy
    \/ StartWatcher
    \/ StartDynamicReload
    \/ NewDynamicWatch
    \/ NewDynamicLoad
    \/ \E w \in Watchers : WatchConfig(w)
    \/ FileChange
    \/ \E w \in Watchers : WatchEvent(w)
    \/ \E w \in Watchers : HandlerParsed(w)
    \/ CallParse
    \/ CallLoad

Spec == Init /\ [][Next]_vars

\* ---------------------------------------------------------- racing reloads
\* A program that builds its Loader from a file, starts watch tasks and then
\* only waits, while the file is written once more than in Spec: the
\* reloads of two change events can then overlap.
InitRace ==
    /\ Init
    /\ env = Unset
    /\ file \in Documents

\* A write to the file, up to one more than MaxChanges.
FileChangeAgain ==
    /\ changes < MaxChanges + 1
    /\ FileWrite

NextRace ==
    \/ WithConfigFile
    \/ NewFinish
    \/ NewParsed
    \/ \E t \in Threads : ParseSub(t)
    \/ \E t \in Threads : ParseStore(t)
    \/ StartWatcher
    \/ StartDynamicReload
    \/ \E w \in Watchers : WatchConfig(w)
    \/ FileChangeAgain
    \/ \E w \in Watchers : WatchEvent(w)
    \/ \E w \in Watchers : HandlerParsed(w)

SpecRace == InitRace /\ [][NextRace]_vars


\* ================================================================ properties
\* The value Unmarshal produces from a map whose port decodes.
Unmarshal(m) == [Host |-> m.host, Port |-> m.port]

\* The maps a source can hand to the decoder, and the values of T that are
\* the complete decoding of one of them.
SourceMaps ==
    {EmptyMap} \cup {d.top : d \in Documents \cup Readers}
               \cup {d.sub : d \in Documents \cup Readers}
Complete(v) ==
    \E m \in SourceMaps : /\ m.port # BadRaw
                           /\ v \in {Unmarshal(m), Unmarshal(WithEnv(viper, m))}

\* The map Parse decodes in the current state of viper.
ParsedMap ==
    WithEnv(viper, IF loader.subSection # "" THEN Sub(viper, loader.subSection)
                                             ELSE AllSettings(viper))

\* New has returned its Loader.
Exposed == mpc \notin {"opts", "autoparse"}

\* NewDynamic has returned and the caller has made no call yet.
NDReturned == mpc = "idle" /\ ops = 0 /\ retVal.set

\* A Parse of goroutine t returns in this step.
ParseReturns(t) ==
    /\ th'[t].pc = "ret"
    /\ \/ th[t].pc \in {"parse", "port"}
       \/ t = Main /\ ops' # ops /\ ld' = ld /\ panicked' = panicked

C2_OneWatchTask ==
    /\ Cardinality({w \in Watchers : Active(w)}) <= 1
    /\ nParsed <= changes

\* ------------------------------------------------------------------- C3
\* C3: a Parse that returns an error leaves the pointer and the published
\* value as they were; the pointer changes only in the Store of a Parse that
\* returns nil; a failure of the auto-parse of New is the only Parse failure
\* that panics (a failed reload never does).
C3_FailedParseKeepsSnapshot ==
    /\ [][/\ \A t \in Threads :
               (ParseReturns(t) /\ th'[t].err # NoErr) =>
                   /\ config' = config
                   /\ config # Nil => heap'[config] = heap[config]
                   /\ panicked' = ""
          /\ config' # config =>
               \E t \in Threads : /\ ParseReturns(t)
                                  /\ th'[t].err = NoErr
                                  /\ config' = th[t].addr]_vars
    /\ [](panicked = "Failed to load config" => mpc = "autoparse")

\* A reload failed after a snapshot had been published, and the process
\* runs on with that snapshot.
C3_Witness ==
    /\ logged = "Failed to reload config"
    /\ config # Nil
    /\ panicked = ""
    /\ \E w \in Watchers : Active(w)

\* ------------------------------------------------------------------- C4
\* C4 as stated: once New has returned, the snapshot pointer is set.
C4_Original == Exposed => config # Nil

\* C4 amended: once New has returned without DisableAutoParse the snapshot
\* pointer is set, and Load panics on a nil pointer only on a Loader built
\* with DisableAutoParse.
C4_SnapshotSetUnlessDisabled ==
    /\ (Exposed /\ ~loader.disableAutoParse) => config # Nil
    /\ panicked = "nil pointer dereference" => loader.disableAutoParse

\* A Loader built with auto-parse has answered a Load.
C4_Witness ==
    /\ Exposed /\ ~loader.disableAutoParse
    /\ retVal.set /\ ops > 0

C6_ReadErrorReturned == config # Nil => viper.loaded

\* ------------------------------------------------------------------- C7
\* C7: with a subsection configured and absent from the source, Parse
\* returns the section-not-found error carrying the section name and stores
\* nothing; with the subsection present, the decoder is given that sub-tree
\* only and the value stored is its decoding.
C7_SubSection ==
    [][\A t \in Threads :
         /\ (ParseReturns(t) /\ th[t].pc # "port" /\ loader.subSection # "") =>
               /\ ~Sub(viper, loader.subSection).present
               /\ th'[t].err = [kind |-> "sectionNotFound",
                                section |-> loader.subSection]
               /\ config' = config
         /\ (th'[t].pc = "port" /\ th[t].pc # "port" /\ loader.subSection # "") =>
               /\ Sub(viper, loader.subSection).present
               /\ th'[t].m = WithEnv(viper, Sub(viper, loader.subSection))
         /\ (ParseReturns(t) /\ th[t].pc = "port" /\ th'[t].err = NoErr) =>
               heap'[config'] = Unmarshal(th[t].m)]_vars

\* The caller's Parse has returned section-not-found and nothing is stored.
C7_Witness ==
    /\ mpc = "idle"
    /\ th[Main].pc = "ret"
    /\ th[Main].err = ErrSectionNotFound(DocSection)
    /\ config = Nil

\* ------------------------------------------------------------------- C8
\* C8: with a callback set, every Parse attempt of the change handler is
\* followed by one invocation of the callback with the result of that
\* attempt; without a callback there is none.
C8_OneCallbackPerAttempt ==
    /\ [](nCalled = IF loader.onChangeCallback THEN nParsed ELSE 0)
    /\ [][\A w \in Watchers :
            (wpc[w] = "handler" /\ wpc'[w] = "watching" /\ loader.onChangeCallback)
               => (nCalled' = nCalled + 1 /\ cbArg' = th[w].err)]_vars

\* The callback has been invoked with the error of a failed reload.
C8_Witness == nCalled > 0 /\ cbArg # NoErr

\* ------------------------------------------------------------------- C9
\* C9: with DisableAutoParse New returns without a Parse, a Store or a
\* panic; the snapshot is then set only by a Parse that returns nil, and a
\* Load made after the caller's successful Parse (no watcher started)
\* returns the decoding of the source.
C9_DisableAutoParse ==
    /\ [](loader.disableAutoParse =>
            /\ panicked # "Failed to load config"
            /\ mpc # "autoparse"
            /\ (retVal.set /\ th[Main].pc = "ret" /\ th[Main].err = NoErr
                /\ \A w \in Watchers : wpc[w] = "none")
                  => retVal.val = Unmarshal(ParsedMap))
    /\ [][/\ (mpc = "opts" /\ mpc' # "opts" /\ loader.disableAutoParse) =>
               (mpc' \in {"idle", "ndwatch"} /\ config' = Nil /\ th' = th)
          /\ (loader.disableAutoParse /\ config' # config) =>
               \E t \in Threads : ParseReturns(t) /\ th'[t].err = NoErr]_vars

\* After DisableAutoParse the caller's Parse succeeded and its Load returned
\* a value read from the source.
C9_Witness ==
    /\ loader.disableAutoParse
    /\ retVal.set /\ retVal.val # ZeroT
    /\ th[Main].pc = "ret" /\ th[Main].err = NoErr
    /\ \A w \in Watchers : wpc[w] = "none"

\* ------------------------------------------------------------------ C10
\* C10 as stated: the value NewDynamic returns is the snapshot that the
\* Parse of its New call published (when New did parse).
C10_Original ==
    (NDReturned /\ ~loader.disableAutoParse) =>
        (newSnap.set /\ retVal.val = newSnap.val)

\* C10 amended: when NewDynamic returns, the change handler is registered
\* and a watch goroutine has been started, and the value returned is the
\* snapshot of the construction-time Parse as long as no Parse of the change
\* handler has returned; the Load of NewDynamic reads the pointer that is
\* current when it runs.
C10_NewDynamicValue ==
    /\ [](NDReturned =>
            /\ viper.onConfigChange = "watcher"
            /\ \E w \in Watchers : wpc[w] # "none"
            /\ (newSnap.set /\ nParsed = 0 /\ \A w \in Watchers : th[w].pc # "ret")
                  => retVal.val = newSnap.val)
    /\ [][(mpc = "ndload" /\ ld = Nil /\ ld' # Nil) => ld' = config]_vars

\* NewDynamic has returned the construction-time snapshot while its watch
\* task is already active.
C10_Witness ==
    /\ NDReturned
    /\ newSnap.set /\ retVal.val = newSnap.val
    /\ \E w \in Watchers : Active(w)

\* ------------------------------------------------------------------ C11
\* C11: a Load that returns with no Store since it read the pointer returns
\* a value whose fields Host and Port are those of the map decoded by the
\* Parse that made the latest Store; and when the previous Load returned
\* with no Store since, this Load returns the same value as that one.
C11_RoundTrip ==
    [][(ld # Nil /\ ld' = Nil /\ ld = config) =>
         /\ retVal'.set
         /\ retVal'.val.Host = hist.m.host
         /\ retVal'.val.Port = hist.m.port
         /\ hist.fresh.set => retVal'.val = hist.fresh.val]_vars

\* The caller has made two Loads of a snapshot decoded from a source, with no
\* Store since the first of them read the pointer.
C11_Witness ==
    /\ ops = MaxOps /\ th[Main].pc = "idle"
    /\ retVal.set /\ retVal.val # ZeroT
    /\ hist.fresh.set /\ hist.fresh.val = retVal.val

\* ------------------------------------------------------------------ C12
\* C12 (second revision of the package; the first has no default file): when
\* the options have run, New reads the file config.yml if and only if no
\* WithConfigFile and no WithConfigReader was among them, whatever their
\* position; no option reads config.yml, and once New has returned the file
\* name viper reads and watches never changes.
C12_DefaultFile ==
    [][api = "current" =>
        /\ (mpc = "opts" /\ mpc' # "opts") =>
              IF viper.configFile = "" /\ viper.configType = ""
              THEN /\ viper'.configFile = "config.yml"
                   /\ ReadOK(file) => /\ viper'.loaded
                                      /\ viper'.top = file.top
                                      /\ viper'.sub = file.sub
              ELSE /\ viper'.configFile = viper.configFile
                   /\ viper'.loaded = viper.loaded
                   /\ viper'.top = viper.top
                   /\ viper'.sub = viper.sub
        /\ (mpc = "opts" /\ mpc' = "opts") => viper'.configFile # "config.yml"
        /\ mpc # "opts" => viper'.configFile = viper.configFile]_vars

\* New was given no source option and has decoded the default file; another
\* option came before.
C12_Witness ==
    /\ Exposed /\ api = "current"
    /\ viper.configFile = "config.yml" /\ viper.configType = ""
    /\ viper.loaded /\ loader.subSection # ""
    /\ config # Nil

\* ------------------------------------------------------------------ C13
\* C13: once New has returned, the environment overlay is on exactly when
\* DisableAutomaticEnv was not among the options; with the variable set and
\* a source read, a published snapshot holds the value of the variable in
\* Host when the overlay is on, and a value of the source when it is off.
C13_EnvOverlay ==
    /\ Exposed => (viper.automaticEnv <=> ~loader.disableAutomaticEnv)
    /\ (Exposed /\ config # Nil /\ viper.loaded /\ hist.m.present /\ env # Unset) =>
          IF loader.disableAutomaticEnv
          THEN heap[config].Host # env
          ELSE heap[config].Host = env

\* ------------------------------------------------------------------ C14
\* C14: every Store publishes, in one step, the finished value of the Parse
\* that makes it; the published snapshot is at every moment the value of the
\* Parse whose Store was the last one, also when the Parses of two change
\* handlers overlap, whichever of their change events came later.
C14_LastStoreWins ==
    /\ [](config # Nil => heap[config] = Unmarshal(hist.m))
    /\ [][\A t \in Threads :
            (ParseReturns(t) /\ th'[t].err = NoErr) =>
               /\ config' = th[t].addr
               /\ heap'[config'] = Unmarshal(th[t].m)
               /\ hist'.m = th[t].m
               /\ \A a \in Addrs \ {config'} :
                     heap'[a] \in {heap[a], ZeroT}]_vars

\* Two change handlers have both stored: one parsed what viper read at the
\* later change event, the other what it read at the earlier one, and the
\* Store of the other came last.
C14_Witness ==
    \E w1, w2 \in Watchers :
        /\ hist.did[w1].present /\ hist.did[w2].present
        /\ hist.did[w1] # hist.did[w2]
        /\ hist.did[w2] = ParsedMap
        /\ config # Nil /\ heap[config] = Unmarshal(hist.did[w1])
        /\ hist.m = hist.did[w1]

\* ------------------------------------------------------------------ C15
\* C15: a Parse that returns nil has made its Store when it returns, and
\* only the Store of another such Parse replaces what it published; a Load
\* reads the pointer once, after it was called, and so takes the snapshot of
\* the latest Store: that of the last Parse that returned nil before the
\* Load began or of one that stored after it, never an older snapshot.
C15_Freshness ==
    [][/\ \A t \in Threads :
            (ParseReturns(t) /\ th'[t].err = NoErr) =>
                (config' = th[t].addr /\ hist'.m = th[t].m)
       /\ (config' # config \/ hist'.m # hist.m) =>
            \E t \in Threads : ParseReturns(t) /\ th'[t].err = NoErr
       /\ (ld = Nil /\ ld' # Nil) =>
            (ld' = config /\ heap[ld'] = Unmarshal(hist.m))
       /\ (ld # Nil /\ ld' = Nil) => retVal'.val = heap[ld]]_vars

\* The caller's Parse has returned nil, the Store of a change handler is the
\* latest one, and the Load the caller then began holds that snapshot.
C15_Witness ==
    /\ ops = MaxOps /\ th[Main].pc = "ret" /\ th[Main].err = NoErr
    /\ ld # Nil /\ ld = config
    /\ \E w \in Watchers : hist.did[w].present /\ hist.m = hist.did[w]
    /\ heap[ld] = Unmarshal(ParsedMap) /\ heap[ld] # ZeroT

\* ------------------------------------------------------------------ C16
\* C16: when the callback is called with a nil error, the handler that calls
\* it has made its Store before, and the published snapshot - what a Load
\* made inside the callback returns - is the value of the latest Store, that
\* of this reload or of a later one; when it is called with an error, the
\* Parse of this handler has stored nothing.
C16_StoreBeforeCallback ==
    /\ [][nCalled' # nCalled =>
            \E w \in Watchers :
                /\ wpc'[w] # wpc[w]
                /\ IF cbArg' = NoErr
                   THEN /\ hist.did[w].present
                        /\ config # Nil
                        /\ heap[config] = Unmarshal(hist.m)
                        /\ config' = config /\ heap'[config] = heap[config]
                   ELSE /\ ~hist.did[w].present
                        /\ config' = config]_vars
    /\ [][\A w \in Watchers :
            hist'.did[w] # hist.did[w] =>
                \/ /\ ParseReturns(w) /\ th'[w].err = NoErr
                    /\ hist'.did[w] = th[w].m /\ config' = th[w].addr
                \/ wpc[w] = "handler" /\ wpc'[w] = "watching"]_vars

\* The callback has been called with nil after a reload that published a
\* value decoded from the changed file.
C16_Witness ==
    /\ nCalled > 0 /\ cbArg = NoErr
    /\ changes > 0
    /\ config # Nil /\ heap[config] = Unmarshal(ParsedMap)
    /\ heap[config] # ZeroT

\* ------------------------------------------------------------------ C17
\* C17: every Parse decodes into a cell that is neither published nor held
\* by a Load or by another Parse; a cell that is published or held by a Load
\* keeps its value for as long as the pointer or a Load refers to it; the
\* pointer moves only to the finished cell of a Parse that returns nil; and
\* a value Load has returned changes only by the caller's next call.
C17_ReplacedNeverMutated ==
    /\ [](\A t \in Threads : th[t].addr # Nil =>
             /\ th[t].addr \notin {config, ld}
             /\ \A u \in Threads \ {t} : th[u].addr # th[t].addr)
    /\ [][/\ \A a \in {config, ld} \ {Nil} :
                a \in {config', ld'} => heap'[a] = heap[a]
          /\ \A t \in Threads :
                (th[t].addr = Nil /\ th'[t].addr # Nil) =>
                    /\ th'[t].addr \notin {config, ld}
                    /\ heap[th'[t].addr] = ZeroT
          /\ config' # config =>
                \E t \in Threads : /\ th[t].addr = config'
                                    /\ th'[t].addr = Nil
                                    /\ heap'[config'] = Unmarshal(th[t].m)
          /\ (retVal.set /\ ops' = ops) => retVal' = retVal]_vars

\* A Load still holds a snapshot that a reload has replaced by a different
\* one.
C17_Witness ==
    /\ ld # Nil /\ config # ld
    /\ heap[ld] # heap[config]
    /\ heap[ld] # ZeroT /\ heap[config] # ZeroT
    /\ nParsed > 0

\* ------------------------------------------------------------------ C18
\* C18: the step that starts a watch task (StartWatcher, StartDynamicReload,
\* the StartWatcher of NewDynamic) and the step in which the task begins to
\* watch leave the pointer, the snapshots, the fields of the Loader, the
\* settings viper has read and every Parse as they are, and notify no
\* change; while the file has not been written no change handler runs, and
\* the snapshot changes only by a Parse of the caller.
C18_StartWatcherFrame ==
    /\ [][(\E w \in Watchers : wpc[w] \in {"none", "starting"} /\ wpc'[w] # wpc[w]) =>
            /\ config' = config /\ heap' = heap
            /\ loader' = loader
            /\ viper' = [viper EXCEPT !.onConfigChange = viper'.onConfigChange]
            /\ th' = th /\ pending' = pending /\ ld' = ld
            /\ hist' = hist /\ retVal' = retVal
            /\ nParsed' = nParsed /\ nCalled' = nCalled]_vars
    /\ [](changes = 0 =>
            \A w \in Watchers : /\ pending[w] = 0
                                 /\ wpc[w] # "handler"
                                 /\ th[w] = IdleFrame)
    /\ [][(changes' = 0 /\ config' # config) => ParseReturns(Main)]_vars

\* A watch is active, the file has not been written, and the caller's two
\* Loads have returned the same value, that of the published snapshot.
C18_Witness ==
    /\ \E w \in Watchers : wpc[w] = "watching"
    /\ changes = 0
    /\ ops = MaxOps /\ th[Main].pc = "idle"
    /\ retVal.set /\ retVal.val = heap[config]
    /\ hist.fresh.set /\ hist.fresh.val = retVal.val
    /\ retVal.val # ZeroT

\* ------------------------------------------------------------------ C19
\* C19: the callback is called only in the step in which a change handler
\* registered by StartWatcher finishes, after the Parse of that handler; the
\* Parse of New and a Parse called by the caller, whether they fail or
\* not, call nothing; and it has never been called while no StartWatcher has
\* been called on the Loader.
C19_CallbackOnlyFromHandler ==
    /\ [][(nCalled' # nCalled \/ cbArg' # cbArg) =>
            /\ viper.onConfigChange = "watcher"
            /\ loader.onChangeCallback
            /\ \E w \in Watchers : /\ wpc[w] = "handler" /\ wpc'[w] = "watching"
                                     /\ th[w].pc = "ret"
                                     /\ cbArg' = th[w].err
            /\ th'[Main] = th[Main] /\ mpc' = mpc /\ ops' = ops]_vars
    /\ [][ParseReturns(Main) => (nCalled' = nCalled /\ cbArg' = cbArg)]_vars
    /\ []((viper.onConfigChange # "watcher" \/ \A w \in Watchers : wpc[w] = "none")
             => nCalled = 0)

\* With a callback set and a watch active, a Parse called by the caller has
\* failed and the callback has not been called.
C19_Witness ==
    /\ loader.onChangeCallback
    /\ \E w \in Watchers : wpc[w] = "watching"
    /\ mpc = "idle" /\ ops > 0
    /\ th[Main].pc = "ret" /\ th[Main].err # NoErr
    /\ nCalled = 0

====
